---- MODULE Spec2Model ----
(***************************************************************************)
(* Model of src/engine/main.py: the ingest handler download_file_from_http *)
(* with is_container_running and start_anoncontainer, the start-up code of *)
(* main(), and the three external services the handler talks to (the HTTP  *)
(* file server, the container runtime, the object store) plus the local    *)
(* working directory.                                                      *)
(*                                                                         *)
(* Python strings that the code takes apart (paths, file names, keys) are  *)
(* sequences of one-character strings; dictionary keys and status words    *)
(* that are only compared are TLA+ strings.                                *)
(***************************************************************************)
EXTENDS Integers, Sequences, FiniteSets, TLC

\* Number of ingest requests the server handles concurrently.
NumRequests == 2

Requests == 1..NumRequests

(***************************************************************************)
(* String helpers: str.rfind, os.path.basename, os.path.splitext, lower.   *)
(***************************************************************************)

\* str.rfind(c), 1-based: the largest index holding c, 0 when there is none.
RECURSIVE RFindFrom(_, _, _)
RFindFrom(s, c, i) ==
    IF i = 0 THEN 0
    ELSE IF s[i] = c THEN i
    ELSE RFindFrom(s, c, i - 1)

RFind(s, c) == RFindFrom(s, c, Len(s))

\* os.path.basename(p): everything after the last "/".
basename(p) == SubSeq(p, RFind(p, "/") + 1, Len(p))

\* The while loop of genericpath._splitext: the dot at dotIndex starts an
\* extension only if some character other than "." lies between the start
\* of the file name and that dot.
RECURSIVE SplitextScan(_, _, _)
SplitextScan(p, filenameIndex, dotIndex) ==
    IF filenameIndex >= dotIndex THEN << >>
    ELSE IF p[filenameIndex] # "." THEN SubSeq(p, dotIndex, Len(p))
    ELSE SplitextScan(p, filenameIndex + 1, dotIndex)

\* os.path.splitext(p)[1]
splitext(p) ==
    LET sepIndex == RFind(p, "/")
        dotIndex == RFind(p, ".")
    IN  IF dotIndex > sepIndex
        THEN SplitextScan(p, sepIndex + 1, dotIndex)
        ELSE << >>

UpperToLower ==
    [P |-> "p", C |-> "c", A |-> "a", L |-> "l", O |-> "o", G |-> "g",
     S |-> "s", V |-> "v", T |-> "t", X |-> "x", D |-> "d"]

LowerChar(c) == IF c \in DOMAIN UpperToLower THEN UpperToLower[c] ELSE c

\* lower() left out: the extension is compared as it was typed.
lower_Identity(s) == s

\* str.lower()
lower(s) == [i \in 1..Len(s) |-> LowerChar(s[i])]

(***************************************************************************)
(* Classification, lines 162-171.                                          *)
(***************************************************************************)
IP     == <<"i", "p">>
NLP    == <<"n", "l", "p">>
AE     == <<"a", "e">>
OTHERS == <<"o", "t", "h", "e", "r", "s">>

DotPcap == <<".", "p", "c", "a", "p">>
DotLog  == <<".", "l", "o", "g">>
DotCsv  == <<".", "c", "s", "v">>

file_extension_of(name) == lower(splitext(name))

target_folder_of(name) ==
    LET file_extension == file_extension_of(name)
    IN  IF file_extension = DotPcap THEN IP
        ELSE IF file_extension = DotLog THEN NLP
        ELSE IF file_extension = DotCsv THEN AE
        ELSE OTHERS

WorkerNames == {"nlp", "classic", "autoencoders"}

\* The values of the dictionary in another order.
container_mapping_Shifted(folder) ==
    IF folder = IP THEN "nlp"
    ELSE IF folder = NLP THEN "autoencoders"
    ELSE IF folder = AE THEN "classic"
    ELSE "None"

\* get with a default worker: container_mapping.get(target_folder, 'classic').
container_mapping_Default(folder) ==
    IF folder = IP THEN "classic"
    ELSE IF folder = NLP THEN "nlp"
    ELSE IF folder = AE THEN "autoencoders"
    ELSE "classic"

\* container_mapping.get(target_folder); "None" when the key is missing.
container_mapping(folder) ==
    IF folder = IP THEN "classic"
    ELSE IF folder = NLP THEN "nlp"
    ELSE IF folder = AE THEN "autoencoders"
    ELSE "None"

\* The key without its folder.
ObjectKey_NoFolder(folder, name) == name

\* f"{target_folder}/{file_name}"
ObjectKey(folder, name) == folder \o <<"/">> \o name


(***************************************************************************)
(* State.                                                                  *)
(***************************************************************************)
VARIABLES
    docker_client,   \* module global, line 34: "None" or "client"
    minio_client,    \* module global, line 35: "None" or "client"
    containers,      \* module global, lines 37-40: worker name -> "None" | "handle"
    mainpc,          \* position of main()
    mainlog,         \* calls main() has made to the object store
    pc,              \* position of each request in download_file_from_http
    file_path,       \* data.get('search', '') of each request
    file_name,       \* local of each request, line 158
    target_folder,   \* local of each request, lines 163-170
    container_name,  \* local of each request, line 171
    fd,              \* inode behind the file object opened at line 160, 0 if none
    ret,             \* what the handler returned or raised
    runtime,         \* container runtime: worker name -> "absent" | "running" | "exited"
    localFiles,      \* working directory: file name -> inode
    inodes,          \* inode -> bytes
    buckets,         \* object store: the buckets that exist
    objects,         \* object store: <<bucket, key>> -> bytes
    log              \* per request, the external calls it made and their outcome

vars == <<docker_client, minio_client, containers, mainpc, mainlog, pc,
          file_path, file_name, target_folder, container_name, fd, ret,
          runtime, localFiles, inodes, buckets, objects, log>>

progvars == <<docker_client, minio_client, mainpc, mainlog>>
envvars  == <<runtime, localFiles, inodes, buckets, objects>>

\* The paths requests ask for.
PathPcap == <<"/", "a", ".", "p", "c", "a", "p">>
PathLog  == <<"/", "d", "/", "a", ".", "L", "O", "G">>
PathCsv  == <<"/", "a", ".", "c", "s", "v">>
PathTxt  == <<"/", "a", ".", "t", "x", "t">>
PathDir  == <<"/", "d", "/">>

Paths == {PathPcap, PathLog, PathCsv, PathTxt, PathDir}

\* Bytes: what open(..., 'wb') leaves, the body of request r's response,
\* and the contents of ./collector.log.
EmptyBytes      == <<"empty", 0>>
Content(r)      == <<"response", r>>
CollectorBytes  == <<"collector.log", 0>>

CollectorLog == <<"c", "o", "l", "l", "e", "c", "t", "o", "r", ".", "l", "o", "g">>

\* The file system keeps an inode while a name or an open file refers to it.
Reclaim(ino, names, fds) ==
    [i \in {j \in DOMAIN ino : (\E n \in DOMAIN names : names[n] = j)
                               \/ (\E r \in Requests : fds[r] = j)}
        |-> ino[i]]

Ev(op, arg, res) == [op |-> op, arg |-> arg, res |-> res]

Pending == [kind |-> "pending", path |-> << >>, exc |-> ""]

RuntimeStates == {"absent", "running", "exited"}

\* The runtime as the handler can find it: the three workers are deployed
\* and stopped together, so they start out in the same state, and differ
\* only by what the handler does afterwards.
RuntimeInits == {[n \in WorkerNames |-> s] : s \in RuntimeStates}

\* The state of the module after import (lines 29-40), with the services
\* in any state they can have been left in.
Init ==
    /\ docker_client = "None"
    /\ minio_client = "None"
    /\ containers = [n \in WorkerNames |-> "None"]
    /\ mainpc = "config"
    /\ mainlog = << >>
    /\ pc = [r \in Requests |-> "idle"]
    /\ file_path = [r \in Requests |-> << >>]
    /\ file_name = [r \in Requests |-> << >>]
    /\ target_folder = [r \in Requests |-> << >>]
    /\ container_name = [r \in Requests |-> "None"]
    /\ fd = [r \in Requests |-> 0]
    /\ ret = [r \in Requests |-> Pending]
    /\ runtime \in RuntimeInits
    /\ localFiles = << >>
    /\ inodes = << >>
    /\ buckets \in {{}, {"input", "output"}}
    /\ objects = << >>
    /\ log = [r \in Requests |-> << >>]

(***************************************************************************)
(* The handler, download_file_from_http, lines 144-180.                    *)
(***************************************************************************)

\* return None (lines 156, 178, 180)
ReturnNone(r) ==
    /\ pc' = [pc EXCEPT ![r] = "done"]
    /\ ret' = [ret EXCEPT ![r] = [kind |-> "None", path |-> << >>, exc |-> ""]]

\* an exception no except clause of the handler catches
Raise(r, exc) ==
    /\ pc' = [pc EXCEPT ![r] = "done"]
    /\ ret' = [ret EXCEPT ![r] = [kind |-> "raised", path |-> << >>, exc |-> exc]]

\* except Exception in place of except IOError.
CaughtByHandler_All(exc) == TRUE

\* except IOError, line 177: what the try block of lines 159-176 catches.
\* requests' and docker's errors derive from IOError; the object store's
\* errors, AttributeError and NameError do not.
CaughtByHandler(exc) == exc \in {"IOError", "FileNotFoundError", "APIError"}

\* An exception raised inside the try block of lines 159-176.
Fail(r, exc) == IF CaughtByHandler(exc) THEN ReturnNone(r) ELSE Raise(r, exc)

Logged(r, op, arg, res) == log' = [log EXCEPT ![r] = Append(@, Ev(op, arg, res))]

\* lines 356-362: the script calls app.run() first and main() only when
\* app.run() has returned, and an importing server gets app without any
\* call of main(): the route is served wherever main() stands, from the
\* state after import on.
AppServing == mainpc \in {"config", "docker", "minio", "bucket_input",
                          "bucket_output", "put_object", "done", "exit2"}

\* lines 146-150: a request arrives with its 'search' field.
Receive(r) ==
    /\ pc[r] = "idle"
    /\ AppServing
    /\ \E p \in Paths : file_path' = [file_path EXCEPT ![r] = p]
    /\ pc' = [pc EXCEPT ![r] = "get"]
    /\ UNCHANGED <<progvars, containers, file_name, target_folder,
                   container_name, fd, ret, envvars, log>>

\* lines 151-157 and 179-180: requests.get, raise_for_status and the
\* status test.  "RequestException" is what line 154 catches: a network
\* error raised by get, or the HTTPError raise_for_status raises for a
\* 4xx or 5xx status.  "204" is a status that is neither an error nor 200.
FetchOutcomes == {"200", "204", "RequestException"}

\* raise_for_status() left out and the status not tested.
FetchProceeds_Unchecked(res) == TRUE

\* No RequestException (line 154) and status_code == 200 (line 157).
FetchProceeds(res) == res = "200"

Fetch(r) ==
    /\ pc[r] = "get"
    /\ \E res \in FetchOutcomes :
          /\ Logged(r, "get", "", res)
          /\ IF FetchProceeds(res)
             THEN pc' = [pc EXCEPT ![r] = "open"] /\ UNCHANGED ret
             ELSE ReturnNone(r)
    /\ UNCHANGED <<progvars, containers, file_path, file_name, target_folder,
                   container_name, fd, envvars>>

\* lines 158-160: file_name = basename(file_path); open(file_name, 'wb')
\* creates the file or truncates the one that is there.
Open(r) ==
    /\ pc[r] = "open"
    /\ LET name == basename(file_path[r]) IN
       /\ file_name' = [file_name EXCEPT ![r] = name]
       /\ \E res \in (IF name = << >> THEN {"IOError"} ELSE {"ok", "IOError"}) :
             /\ Logged(r, "open", "", res)
             /\ IF res = "ok"
                THEN LET ino == IF name \in DOMAIN localFiles
                                THEN localFiles[name] ELSE r
                     IN  /\ localFiles' = (name :> ino) @@ localFiles
                         /\ inodes' = (ino :> EmptyBytes) @@ inodes
                         /\ fd' = [fd EXCEPT ![r] = ino]
                         /\ pc' = [pc EXCEPT ![r] = "write"]
                         /\ UNCHANGED ret
                ELSE /\ Fail(r, res)
                     /\ UNCHANGED <<localFiles, inodes, fd>>
    /\ UNCHANGED <<progvars, containers, file_path, target_folder,
                   container_name, runtime, buckets, objects>>

\* line 161 and the end of the with block: write the body and close.  The
\* write goes to the inode that was opened, whether or not the name still
\* points at it.
Write(r) ==
    /\ pc[r] = "write"
    /\ fd' = [fd EXCEPT ![r] = 0]
    /\ \E res \in {"ok", "IOError"} :
          /\ Logged(r, "write", "", res)
          /\ IF res = "ok"
             THEN /\ inodes' = Reclaim([inodes EXCEPT ![fd[r]] = Content(r)],
                                       localFiles, fd')
                  /\ pc' = [pc EXCEPT ![r] = "classify"]
                  /\ UNCHANGED ret
             ELSE /\ Fail(r, res)
                  /\ inodes' = Reclaim(inodes, localFiles, fd')
    /\ UNCHANGED <<progvars, containers, file_path, file_name, target_folder,
                   container_name, runtime, localFiles, buckets, objects>>

\* lines 162-172 up to the call: classify, look the worker name up, and
\* decide whether the runtime is asked at all.
Classify(r) ==
    /\ pc[r] = "classify"
    /\ LET folder == target_folder_of(file_name[r])
           cname  == container_mapping(folder)
       IN  /\ target_folder' = [target_folder EXCEPT ![r] = folder]
           /\ container_name' = [container_name EXCEPT ![r] = cname]
           /\ pc' = [pc EXCEPT ![r] = IF cname # "None" THEN "check" ELSE "upload"]
    /\ UNCHANGED <<progvars, containers, file_path, file_name, fd, ret,
                   envvars, log>>


\* is_container_running(container_name), lines 105-119, as called at line
\* 172.  What docker_client.containers.get does: "NotFound" when no
\* container has the name, the container's status when one has, "APIError"
\* when the runtime cannot be reached or answers with an error (APIError
\* and the transport errors are IOError subclasses by way of
\* requests.exceptions.RequestException).
QueryOutcomes(name) ==
    IF docker_client = "None" THEN {"AttributeError"}
    ELSE {IF runtime[name] = "absent" THEN "NotFound" ELSE runtime[name],
          "APIError"}

\* A missing container counted as running: never a start request.
is_container_running_Always(res) == TRUE

\* The status is not looked at: never "running".
is_container_running_Never(res) == FALSE

\* Only NotFound is caught inside is_container_running (line 115); it then
\* returns None.  The else branch returns Status == "running".  Any other
\* exception leaves is_container_running and the handler's try block.
is_container_running(res) == res = "running"

Check(r) ==
    /\ pc[r] = "check"
    /\ \E res \in QueryOutcomes(container_name[r]) :
          /\ Logged(r, "query", container_name[r], res)
          /\ IF res \in {"AttributeError", "APIError"}
             THEN Fail(r, res)
             ELSE /\ pc' = [pc EXCEPT ![r] =
                               IF is_container_running(res) THEN "upload"
                                                            ELSE "start"]
                  /\ UNCHANGED ret
    /\ UNCHANGED <<progvars, containers, file_path, file_name, target_folder,
                   container_name, fd, envvars>>

\* lines 87-93
Image(aname) ==
    IF aname = "classic" THEN "thoth/classic:latest"
    ELSE IF aname = "nlp" THEN "thoth/nlp:latest"
    ELSE IF aname = "autoencoders" THEN "thoth/ae:latest"
    ELSE "ubuntu:latest"

\* docker_client.containers.run(image, detach=True, name=aname), lines
\* 95-98: the name must be free ("Conflict" otherwise); the runtime may
\* also refuse for reasons of its own ("APIError").
RunOutcomes(aname) ==
    IF docker_client = "None" THEN {"AttributeError"}
    ELSE IF runtime[aname] # "absent" THEN {"Conflict", "APIError"}
    ELSE {"ok", "APIError"}

\* Line 100, containers[name] = container.  No variable called name is
\* bound in start_anoncontainer or in the module (the parameter is aname),
\* so evaluating the subscript raises NameError, which the except clause
\* of line 101 catches: the dictionary is left as it was.
NameIsBound == FALSE

\* The handle stored under the image instead of the worker name.
RegistryAfterRun_ImageKey(reg, aname) == (Image(aname) :> "handle") @@ reg

RegistryAfterRun(reg, aname) ==
    IF NameIsBound THEN [reg EXCEPT ![aname] = "handle"] ELSE reg

\* except docker.errors.NotFound in place of except Exception.
CaughtByStart_OnlyNotFound(exc) == exc = "NotFound"

\* except Exception, line 101: everything raised in lines 95-100.
CaughtByStart(exc) == TRUE

\* start_anoncontainer(container_name), lines 80-102, as called at line
\* 173: run, then the store of line 100; what either raises is printed
\* (lines 101-102) and the handler goes on to line 174.
StartContainer(r) ==
    /\ pc[r] = "start"
    /\ LET aname == container_name[r] IN
       \E res \in RunOutcomes(aname) :
          LET exc == IF res # "ok" THEN res
                     ELSE IF NameIsBound THEN "" ELSE "NameError"
          IN  /\ Logged(r, "run", aname, res)
              /\ IF res = "ok"
                 THEN /\ runtime' = [runtime EXCEPT ![aname] = "running"]
                      /\ containers' = RegistryAfterRun(containers, aname)
                 ELSE UNCHANGED <<runtime, containers>>
              /\ IF exc = "" \/ CaughtByStart(exc)
                 THEN pc' = [pc EXCEPT ![r] = "upload"] /\ UNCHANGED ret
                 ELSE Fail(r, exc)
    /\ UNCHANGED <<progvars, file_path, file_name, target_folder,
                   container_name, fd, localFiles, inodes, buckets, objects>>

\* minio_client.fput_object(bucket, key, local), lines 56-59 and 174: it
\* stats and reads the local file (FileNotFoundError, an IOError), then
\* puts the object ("S3Error" stands for S3Error and the transport errors
\* of the client, none of which is an IOError).
PutOutcomes(bucket, local) ==
    IF minio_client = "None" THEN {"AttributeError"}
    ELSE IF local \notin DOMAIN localFiles THEN {"FileNotFoundError"}
    ELSE IF bucket \notin buckets THEN {"S3Error"}
    ELSE {"ok", "S3Error"}

ObjectsAfterPut(bucket, key, local) ==
    (<<bucket, key>> :> inodes[localFiles[local]]) @@ objects

\* The upload in a try of its own whose except clause goes on.
UploadCompleted_Any(res) == TRUE

\* Line 175 is reached only when fput_object has returned: an exception
\* raised by line 174 leaves the try block.
UploadCompleted(res) == res = "ok"

Upload(r) ==
    /\ pc[r] = "upload"
    /\ LET key == ObjectKey(target_folder[r], file_name[r]) IN
       \E res \in PutOutcomes("input", file_name[r]) :
          /\ Logged(r, "put", "input", res)
          /\ IF res = "ok"
             THEN objects' = ObjectsAfterPut("input", key, file_name[r])
             ELSE UNCHANGED objects
          /\ IF UploadCompleted(res)
             THEN /\ pc' = [pc EXCEPT ![r] = "remove"]
                  /\ UNCHANGED ret
             ELSE Fail(r, res)
    /\ UNCHANGED <<progvars, containers, file_path, file_name, target_folder,
                   container_name, fd, runtime, localFiles, inodes, buckets>>

\* lines 175-176: os.remove(file_name), then return the key.  The name may
\* be gone (FileNotFoundError) or the removal refused (another OSError);
\* both are IOError for line 177.
Remove(r) ==
    /\ pc[r] = "remove"
    /\ \E res \in (IF file_name[r] \in DOMAIN localFiles
                   THEN {"ok", "IOError"} ELSE {"FileNotFoundError"}) :
          /\ Logged(r, "remove", "", res)
          /\ IF res = "ok"
             THEN /\ localFiles' = [n \in DOMAIN localFiles \ {file_name[r]}
                                       |-> localFiles[n]]
                  /\ inodes' = Reclaim(inodes, localFiles', fd)
                  /\ pc' = [pc EXCEPT ![r] = "done"]
                  /\ ret' = [ret EXCEPT ![r] =
                               [kind |-> "path",
                                path |-> ObjectKey(target_folder[r], file_name[r]),
                                exc  |-> ""]]
             ELSE /\ UNCHANGED <<localFiles, inodes>>
                  /\ Fail(r, res)
    /\ UNCHANGED <<progvars, containers, file_path, file_name, target_folder,
                   container_name, fd, runtime, buckets, objects>>

(***************************************************************************)
(* main(), lines 217-349.                                                  *)
(***************************************************************************)

\* lines 234-310: arguments, configuration file, logger.
MainConfig ==
    /\ mainpc = "config"
    /\ mainpc' = "docker"
    /\ UNCHANGED <<docker_client, minio_client, mainlog, containers, pc,
                   file_path, file_name, target_folder, container_name, fd,
                   ret, envvars, log>>

\* line 317
MainDockerClient ==
    /\ mainpc = "docker"
    /\ docker_client' = "client"
    /\ mainpc' = "minio"
    /\ UNCHANGED <<minio_client, mainlog, containers, pc, file_path,
                   file_name, target_folder, container_name, fd, ret,
                   envvars, log>>

\* lines 318-321
MainMinioClient ==
    /\ mainpc = "minio"
    /\ minio_client' = "client"
    /\ mainpc' = "bucket_input"
    /\ UNCHANGED <<docker_client, mainlog, containers, pc, file_path,
                   file_name, target_folder, container_name, fd, ret,
                   envvars, log>>

\* make_bucket called whatever bucket_exists said.
MakeBucketCalled_Always(found) == TRUE

\* if not found, lines 66 and 73
MakeBucketCalled(found) == ~found

\* setup_minio_buckets, lines 65-70 for "input" and 72-77 for "output":
\* bucket_exists, and make_bucket when it said no.  make_bucket of a bucket
\* that exists is refused by the store, and the error ends main().
SetupBucket(b, next) ==
    /\ mainpc = "bucket_" \o b
    /\ LET found == b \in buckets
           asked == Ev("bucket_exists", b, IF found THEN "True" ELSE "False")
       IN  IF ~MakeBucketCalled(found)
           THEN /\ mainlog' = Append(mainlog, asked)
                /\ UNCHANGED buckets
                /\ mainpc' = next
           ELSE IF b \in buckets
           THEN /\ mainlog' = mainlog \o <<asked, Ev("make_bucket", b, "S3Error")>>
                /\ UNCHANGED buckets
                /\ mainpc' = "exit2"
           ELSE /\ mainlog' = mainlog \o <<asked, Ev("make_bucket", b, "ok")>>
                /\ buckets' = buckets \cup {b}
                /\ mainpc' = next
    /\ UNCHANGED <<docker_client, minio_client, containers, pc, file_path,
                   file_name, target_folder, container_name, fd, ret,
                   runtime, localFiles, inodes, objects, log>>

\* lines 323-325 with put_object, lines 52-59: ./collector.log goes to
\* input/nlp/collector.log when the file is there.
MainPutObject ==
    /\ mainpc = "put_object"
    /\ \E res \in {"ok", "FileNotFoundError", "S3Error"} :
          /\ mainlog' = Append(mainlog, Ev("put", "input", res))
          /\ IF res = "ok"
             THEN /\ objects' = (<<"input", ObjectKey(NLP, CollectorLog)>>
                                    :> CollectorBytes) @@ objects
                  /\ mainpc' = "done"
             ELSE /\ UNCHANGED objects
                  /\ mainpc' = "exit2"               \* lines 337-349
    /\ UNCHANGED <<docker_client, minio_client, containers, pc, file_path,
                   file_name, target_folder, container_name, fd, ret,
                   runtime, localFiles, inodes, buckets, log>>

\* lines 337-349: an exception anywhere before the store is set up (no
\* [default] section in the configuration file, no runtime socket, object
\* store unreachable) ends main() with status 2.
MainFail ==
    /\ mainpc \in {"config", "docker", "bucket_input", "bucket_output"}
    /\ mainpc' = "exit2"
    /\ UNCHANGED <<docker_client, minio_client, mainlog, containers, pc,
                   file_path, file_name, target_folder, container_name, fd,
                   ret, envvars, log>>

\* One step of one request.
NextServing ==
    \/ \E r \in Requests : Receive(r)
    \/ \E r \in Requests : Fetch(r)
    \/ \E r \in Requests : Open(r)
    \/ \E r \in Requests : Write(r)
    \/ \E r \in Requests : Classify(r)
    \/ \E r \in Requests : Check(r)
    \/ \E r \in Requests : StartContainer(r)
    \/ \E r \in Requests : Upload(r)
    \/ \E r \in Requests : Remove(r)

Next ==
    \/ NextServing
    \/ MainConfig
    \/ MainDockerClient
    \/ MainMinioClient
    \/ SetupBucket("input", "bucket_output")
    \/ SetupBucket("output", "put_object")
    \/ MainPutObject
    \/ MainFail

Spec == Init /\ [][Next]_vars

(***************************************************************************)
(* The handler once main() has run to its end (line 325) on a store that   *)
(* had the two buckets: both clients are set, no request has arrived, and  *)
(* the workers are either all up or not created yet.                       *)
(***************************************************************************)
InitServing ==
    /\ docker_client = "client"
    /\ minio_client = "client"
    /\ containers = [n \in WorkerNames |-> "None"]
    /\ mainpc = "done"
    /\ mainlog = <<Ev("bucket_exists", "input", "True"),
                   Ev("bucket_exists", "output", "True"),
                   Ev("put", "input", "ok")>>
    /\ pc = [r \in Requests |-> "idle"]
    /\ file_path = [r \in Requests |-> << >>]
    /\ file_name = [r \in Requests |-> << >>]
    /\ target_folder = [r \in Requests |-> << >>]
    /\ container_name = [r \in Requests |-> "None"]
    /\ fd = [r \in Requests |-> 0]
    /\ ret = [r \in Requests |-> Pending]
    /\ runtime \in {rt \in RuntimeInits : \A n \in WorkerNames : rt[n] # "exited"}
    /\ localFiles = << >>
    /\ inodes = << >>
    /\ buckets = {"input", "output"}
    /\ objects = (<<"input", ObjectKey(NLP, CollectorLog)>> :> CollectorBytes)
    /\ log = [r \in Requests |-> << >>]

SpecServing == InitServing /\ [][NextServing]_vars


(***************************************************************************)
(* Classification on its own: a request that has fetched and written a     *)
(* file of any of the names below stands before line 162.                  *)
(***************************************************************************)
ClassifyStems ==
    {<< >>, <<"a">>, <<".">>, <<".", ".">>, <<".", "a">>, <<"a", ".">>,
     <<"a", ".", "b">>, <<"a", ".", "c", "s", "v">>}

ClassifyExts ==
    {<< >>, <<".">>,
     DotPcap, <<".", "P", "C", "A", "P">>, <<".", "P", "c", "a", "p">>,
     DotLog, <<".", "L", "O", "G">>, <<".", "l", "o", "G">>,
     DotCsv, <<".", "C", "S", "V">>, <<".", "c", "S", "v">>,
     <<".", "t", "x", "t">>, <<".", "p", "c", "a", "p", "x">>,
     <<".", "l", "o">>, <<"p", "c", "a", "p">>, <<"l", "o", "g">>,
     <<".", "c", "s", "v", ".">>, <<".", "l", "o", "g", ".", "g", "z">>}

ClassifyDirs == {<< >>, <<"/">>, <<"/", "d", ".", "l", "o", "g", "/">>}

ClassifyPaths ==
    {p \in {d \o st \o e : d \in ClassifyDirs, st \in ClassifyStems,
                           e \in ClassifyExts} : basename(p) # << >>}

InitClassify ==
    /\ docker_client = "None"
    /\ minio_client = "None"
    /\ containers = [n \in WorkerNames |-> "None"]
    /\ mainpc = "config"
    /\ mainlog = << >>
    /\ pc = [r \in Requests |-> IF r = 1 THEN "classify" ELSE "idle"]
    /\ \E p \in ClassifyPaths :
          /\ file_path = [r \in Requests |-> IF r = 1 THEN p ELSE << >>]
          /\ file_name = [r \in Requests |-> IF r = 1 THEN basename(p) ELSE << >>]
          /\ localFiles = (basename(p) :> 1)
    /\ target_folder = [r \in Requests |-> << >>]
    /\ container_name = [r \in Requests |-> "None"]
    /\ fd = [r \in Requests |-> 0]
    /\ ret = [r \in Requests |-> Pending]
    /\ runtime = [n \in WorkerNames |-> "absent"]
    /\ inodes = (1 :> Content(1))
    /\ buckets = {}
    /\ objects = << >>
    /\ log = [r \in Requests |->
                 IF r = 1 THEN <<Ev("get", "", "200"), Ev("open", "", "ok"),
                                 Ev("write", "", "ok")>>
                          ELSE << >>]

NextClassify == \E r \in Requests : Classify(r)

SpecClassify == InitClassify /\ [][NextClassify]_vars

(***************************************************************************)
(* Properties.                                                             *)
(***************************************************************************)

\* The request has passed line 171.
Classified(r) == pc[r] \in {"check", "start", "upload", "remove", "done"}
                 /\ target_folder[r] # << >>

\* Line 161 has been passed.
WroteOk(r) == \E i \in DOMAIN log[r] : log[r][i] = Ev("write", "", "ok")

\* c is the letter l in either case.
FoldsTo(c, l) == c = l \/ (c \in DOMAIN UpperToLower /\ UpperToLower[c] = l)

\* name ends in the extension e (a dot and letters), in any mix of cases,
\* and that dot is preceded by something other than dots.
HasExtension(name, e) ==
    LET n == Len(name)
        k == Len(e)
    IN  /\ n > k
        /\ \A i \in 1..k : FoldsTo(name[n - k + i], e[i])
        /\ \E i \in 1..(n - k) : name[i] # "."

DocumentedFolder(name) ==
    IF HasExtension(name, DotPcap) THEN IP
    ELSE IF HasExtension(name, DotLog) THEN NLP
    ELSE IF HasExtension(name, DotCsv) THEN AE
    ELSE OTHERS

\* C1: every file name is classified, and by the lower-cased final
\* extension alone: .pcap gives ip, .log gives nlp, .csv gives ae in any
\* mix of cases, and every other name (other extension, none) gives others.
C1_ClassifyTotal ==
    \A r \in Requests :
        /\ (WroteOk(r) /\ pc[r] # "classify") => Classified(r)
        /\ Classified(r) => target_folder[r] = DocumentedFolder(file_name[r])

\* A mixed-case .pcap has been classified.
C1_Witness ==
    \E r \in Requests :
        /\ Classified(r)
        /\ file_name[r] = <<"a", ".", "P", "c", "a", "p">>
        /\ target_folder[r] = IP


\* The calls of request r recorded with operation op, in order.
Calls(r, op) == SelectSeq(log[r], LAMBDA e : e.op = op)

Did(r, op, res) == \E i \in DOMAIN log[r] : log[r][i].op = op /\ log[r][i].res = res

Finished(r) == pc[r] = "done"

\* What the claims expect of a request: its file name, folder, worker, key.
NameOf(r)   == basename(file_path[r])
FolderOf(r) == DocumentedFolder(NameOf(r))
KeyOf(r)    == FolderOf(r) \o <<"/">> \o NameOf(r)

DocumentedWorker(name) ==
    IF HasExtension(name, DotPcap) THEN "classic"
    ELSE IF HasExtension(name, DotLog) THEN "nlp"
    ELSE IF HasExtension(name, DotCsv) THEN "autoencoders"
    ELSE "None"

FetchFailed(r) == Did(r, "get", "RequestException")

\* C2: a failed fetch (network error, 4xx or 5xx) ends the request with
\* None and the fetch is the only call it ever made: no local file opened,
\* no runtime query or start, no object put.
C2_FetchFailureStops ==
    \A r \in Requests :
        FetchFailed(r) =>
            /\ Finished(r)
            /\ ret[r].kind = "None"
            /\ Len(log[r]) = 1
            /\ fd[r] = 0

C2_Witness ==
    \E r \in Requests : FetchFailed(r) /\ Finished(r)

QueryFailed(r) == Did(r, "query", "APIError") \/ Did(r, "query", "AttributeError")

\* C3 as claimed: a status query that fails otherwise than by "not found"
\* does not abort the ingest; the request still goes on to the upload and
\* does not come back without a path for that reason.
C3_QueryFailureNotFatal ==
    \A r \in Requests :
        (QueryFailed(r) /\ Finished(r)) => Calls(r, "put") # << >>

RunFailed(r) ==
    \E i \in DOMAIN log[r] : log[r][i].op = "run" /\ log[r][i].res # "ok"

\* C4: a failed start request is swallowed: the request goes on to the
\* upload, and when upload and delete succeed the object is in the input
\* bucket at <folder>/<filename> and that path is returned.
C4_StartFailureSwallowed ==
    \A r \in Requests :
        RunFailed(r) =>
            /\ pc[r] \in {"upload", "remove", "done"}
            /\ Finished(r) => Calls(r, "put") # << >>
            /\ Did(r, "put", "ok") => <<"input", KeyOf(r)>> \in DOMAIN objects
            /\ (Did(r, "put", "ok") /\ Did(r, "remove", "ok")) =>
                   ret[r] = [kind |-> "path", path |-> KeyOf(r), exc |-> ""]

C4_Witness ==
    \E r \in Requests :
        /\ Did(r, "run", "APIError")
        /\ ret[r].kind = "path"

ReportedRunning(r) == Did(r, "query", "running")

\* C5: once the runtime has reported the worker as running, the request
\* issues no start request, and no step the request takes changes the
\* containers of the runtime.
C5_RunningIsNoOp ==
    /\ [](\A r \in Requests : ReportedRunning(r) => Calls(r, "run") = << >>)
    /\ [][\A r \in Requests :
             (ReportedRunning(r)' /\ log'[r] # log[r]) => runtime' = runtime]_vars

C5_Witness ==
    \E r \in Requests : ReportedRunning(r) /\ ret[r].kind = "path"

ReportedNotFound(r) == Did(r, "query", "NotFound")

\* C6: after "not found" the request issues exactly one start request, for
\* the worker of the file's category (.pcap classic, .log nlp, .csv
\* autoencoders), whether that start succeeds or fails; never a second.
C6_OneStartWhenAbsent ==
    \A r \in Requests :
        /\ Len(Calls(r, "run")) <= 1
        /\ (ReportedNotFound(r) /\ pc[r] \in {"upload", "remove", "done"}) =>
              /\ Len(Calls(r, "run")) = 1
              /\ Calls(r, "run")[1].arg = DocumentedWorker(NameOf(r))
              /\ DocumentedWorker(NameOf(r)) \in WorkerNames

C6_Witness ==
    /\ \E r \in Requests : ReportedNotFound(r) /\ Did(r, "run", "ok") /\ Finished(r)
    /\ \E r \in Requests : ReportedNotFound(r) /\ Did(r, "run", "APIError") /\ Finished(r)

\* No other request has arrived.
Alone(r) == \A q \in Requests \ {r} : pc[q] = "idle"

AllSucceeded(r) ==
    /\ Did(r, "get", "200") /\ Did(r, "open", "ok") /\ Did(r, "write", "ok")
    /\ Did(r, "put", "ok") /\ Did(r, "remove", "ok")

\* What main() has put into the store (lines 323-325).
MainObjects ==
    IF \E i \in DOMAIN mainlog : mainlog[i] = Ev("put", "input", "ok")
    THEN {<<"input", NLP \o <<"/">> \o CollectorLog>>}
    ELSE {}

\* C7: a request handled alone whose fetch, write, upload and delete all
\* succeed has put exactly one object, into bucket input under
\* <folder>/<basename of the path>, holding the bytes it fetched; the local
\* file is gone; and it returned that key.
C7_SuccessfulIngest ==
    \A r \in Requests :
        (Alone(r) /\ AllSucceeded(r)) =>
            /\ Len(Calls(r, "put")) = 1
            /\ DOMAIN objects \ MainObjects = {<<"input", KeyOf(r)>>}
            /\ objects[<<"input", KeyOf(r)>>] = Content(r)
            /\ NameOf(r) \notin DOMAIN localFiles
            /\ ret[r] = [kind |-> "path", path |-> KeyOf(r), exc |-> ""]

C7_Witness ==
    \E r \in Requests :
        /\ Alone(r) /\ AllSucceeded(r)
        /\ file_path[r] = PathLog
        /\ ret[r].path = <<"n", "l", "p", "/", "a", ".", "L", "O", "G">>

PutFailed(r) == Did(r, "put", "S3Error")

\* C8: when the object store refuses the upload, the step that fails
\* leaves the local file where it is, the request never reaches os.remove,
\* it returns no path, and the store's error is what the caller gets.
C8_UploadFailureKeepsFile ==
    /\ [](\A r \in Requests :
            PutFailed(r) =>
                /\ Finished(r)
                /\ Calls(r, "remove") = << >>
                /\ ret[r] = [kind |-> "raised", path |-> << >>, exc |-> "S3Error"])
    /\ [][\A r \in Requests :
             (PutFailed(r)' /\ ~PutFailed(r)) =>
                 /\ localFiles' = localFiles
                 /\ file_name[r] \in DOMAIN localFiles']_vars

C8_Witness ==
    \E r \in Requests : PutFailed(r) /\ file_name[r] \in DOMAIN localFiles

\* C9 as claimed: once start_anoncontainer(aname) has started a container,
\* containers[aname] holds its handle (and an entry that is set stays set).
C9_RegistryPopulated ==
    \A r \in Requests :
        Did(r, "run", "ok") => containers[container_name[r]] = "handle"

\* C10: nothing orders the check of one request against the start of
\* another: whenever two requests were both told "not found" for the same
\* worker, each of them issues its own start request for it.
C10_BothStart ==
    \A r, q \in Requests :
        (/\ r # q
         /\ ReportedNotFound(r) /\ ReportedNotFound(q)
         /\ container_name[r] = container_name[q]
         /\ pc[r] \in {"upload", "remove", "done"}
         /\ pc[q] \in {"upload", "remove", "done"})
        => /\ Len(Calls(r, "run")) = 1
           /\ Len(Calls(q, "run")) = 1
           /\ Calls(r, "run")[1].arg = Calls(q, "run")[1].arg

\* Two requests found the same worker absent and both asked for it to be
\* started: two start requests for one absent worker.
C10_Witness ==
    \E r, q \in Requests :
        /\ r # q
        /\ ReportedNotFound(r) /\ ReportedNotFound(q)
        /\ container_name[r] = container_name[q]
        /\ Did(r, "run", "ok") /\ Did(q, "run", "Conflict")

\* C11: in every reachable state the registry has exactly the keys nlp,
\* classic and autoencoders, and each key holds None or one handle.
C11_RegistryShape ==
    /\ DOMAIN containers = {"nlp", "classic", "autoencoders"}
    /\ \A n \in DOMAIN containers : containers[n] \in {"None", "handle"}

\* Two requests have each had a container started, for different workers.
C11_Witness ==
    \E r, q \in Requests :
        /\ r # q
        /\ Did(r, "run", "ok") /\ Did(q, "run", "ok")
        /\ container_name[r] # container_name[q]

(***************************************************************************)
(* setup_minio_buckets on its own: called on a store holding any of the    *)
(* buckets below, and called again after it has returned.                  *)
(***************************************************************************)

\* How many times setup_minio_buckets is called.
MaxSetupCalls == 2

BucketNames == {"input", "output", "logs", "tmp"}

SetupReturns == SelectSeq(mainlog, LAMBDA e : e.op = "setup")

InitSetup ==
    /\ docker_client = "client"
    /\ minio_client = "client"
    /\ containers = [n \in WorkerNames |-> "None"]
    /\ mainpc = "bucket_input"
    /\ mainlog = << >>
    /\ pc = [r \in Requests |-> "idle"]
    /\ file_path = [r \in Requests |-> << >>]
    /\ file_name = [r \in Requests |-> << >>]
    /\ target_folder = [r \in Requests |-> << >>]
    /\ container_name = [r \in Requests |-> "None"]
    /\ fd = [r \in Requests |-> 0]
    /\ ret = [r \in Requests |-> Pending]
    /\ runtime \in RuntimeInits
    /\ localFiles = << >>
    /\ inodes = << >>
    /\ buckets \in SUBSET BucketNames
    /\ objects = << >>
    /\ log = [r \in Requests |-> << >>]

\* setup_minio_buckets() has returned (line 322) and is called once more.
SetupAgain ==
    /\ mainpc = "put_object"
    /\ Len(SetupReturns) + 1 < MaxSetupCalls
    /\ mainlog' = Append(mainlog, Ev("setup", "", "returned"))
    /\ mainpc' = "bucket_input"
    /\ UNCHANGED <<docker_client, minio_client, containers, pc, file_path,
                   file_name, target_folder, container_name, fd, ret,
                   envvars, log>>

NextSetup ==
    \/ SetupBucket("input", "bucket_output")
    \/ SetupBucket("output", "put_object")
    \/ SetupAgain
    \/ MainFail

SpecSetup == InitSetup /\ [][NextSetup]_vars

\* setup_minio_buckets has returned at least once.
SetupReturned == mainpc = "put_object" \/ SetupReturns # << >>

\* Index in mainlog of the first return of setup_minio_buckets, or one past
\* the end while the first call is still running or has just returned.
FirstReturn ==
    IF SetupReturns = << >> THEN Len(mainlog) + 1
    ELSE CHOOSE i \in DOMAIN mainlog :
            /\ mainlog[i].op = "setup"
            /\ \A j \in 1..(i - 1) : mainlog[j].op # "setup"

\* C12: when setup_minio_buckets has returned, input and output exist;
\* make_bucket is only ever called for the bucket bucket_exists has just
\* reported absent; and a call after the first return makes no bucket and
\* leaves the set of buckets as it was.
C12_SetupIdempotent ==
    /\ [](SetupReturned => {"input", "output"} \subseteq buckets)
    /\ [](\A i \in DOMAIN mainlog :
             mainlog[i].op = "make_bucket" =>
                /\ i > 1
                /\ mainlog[i - 1] = Ev("bucket_exists", mainlog[i].arg, "False")
                /\ i < FirstReturn)
    /\ [][SetupReturned => buckets' = buckets]_vars

\* A second call has returned on a store that had neither bucket at first.
C12_Witness ==
    /\ mainpc = "put_object"
    /\ Len(SetupReturns) = 1
    /\ Len(SelectSeq(mainlog, LAMBDA e : e.op = "make_bucket")) = 2
    /\ mainlog[Len(mainlog)] = Ev("bucket_exists", "output", "True")

\* C13 as claimed: a request that finds its worker's container stopped,
\* with the runtime answering every call, leaves the worker running.
C13_StoppedWorkerStarted ==
    \A r \in Requests :
        (/\ Did(r, "query", "exited")
         /\ pc[r] \in {"upload", "remove", "done"}
         /\ ~Did(r, "run", "APIError"))
        => runtime[container_name[r]] = "running"

\* No call of request r failed for a reason outside the program: every
\* fetch, local open and write, runtime call and upload was answered, and
\* no removal was refused.
NoExternalFailure(r) ==
    \A i \in DOMAIN log[r] :
        log[r][i].res \notin {"RequestException", "204", "IOError", "APIError",
                              "S3Error", "AttributeError"}

\* C14 as claimed: two requests for the same file name, neither hit by an
\* external failure, both return <folder>/<filename>, the object at that
\* key holds the bytes one of them fetched, and the local file is gone
\* once both have finished.
C14_SameFileIndependent ==
    \A r, q \in Requests :
        (/\ r # q
         /\ Finished(r) /\ Finished(q)
         /\ NameOf(r) = NameOf(q) /\ NameOf(r) # << >>
         /\ NoExternalFailure(r) /\ NoExternalFailure(q))
        => /\ ret[r] = [kind |-> "path", path |-> KeyOf(r), exc |-> ""]
           /\ ret[q] = [kind |-> "path", path |-> KeyOf(q), exc |-> ""]
           /\ <<"input", KeyOf(r)>> \in DOMAIN objects
           /\ objects[<<"input", KeyOf(r)>>] \in {Content(r), Content(q)}
           /\ NameOf(r) \notin DOMAIN localFiles

\* A request is being handled: it has arrived and not yet returned.
BeingHandled(r) == pc[r] \notin {"idle", "done"}

\* setup_minio_buckets() has run to its end in main() (line 322).
MainSetupDone ==
    \E i \in DOMAIN mainlog : mainlog[i].op = "bucket_exists" /\ mainlog[i].arg = "output"

\* C15 as claimed: while a request is being handled, both clients have
\* been constructed and setup_minio_buckets has run, so that input and
\* output exist.
C15_StartupBeforeServing ==
    \A r \in Requests :
        BeingHandled(r) =>
            /\ docker_client = "client"
            /\ minio_client = "client"
            /\ MainSetupDone
            /\ {"input", "output"} \subseteq buckets

\* What may come directly before the i-th call of request r.
ComesAfter(r, i) ==
    LET e    == log[r][i]
        prev == log[r][i - 1]
    IN  CASE e.op = "get"    -> i = 1
          [] e.op = "open"   -> i = 2 /\ prev = Ev("get", "", "200")
          [] e.op = "write"  -> i = 3 /\ prev = Ev("open", "", "ok")
          [] e.op = "query"  -> /\ i = 4 /\ prev = Ev("write", "", "ok")
                                /\ target_folder[r] # << >>
                                /\ e.arg = container_name[r]
          [] e.op = "run"    -> /\ i = 5 /\ prev.op = "query"
                                /\ prev.res \in {"NotFound", "exited"}
          [] e.op = "put"    -> /\ i > 3
                                /\ target_folder[r] # << >>
                                /\ IF container_name[r] = "None"
                                   THEN prev = Ev("write", "", "ok")
                                   ELSE \/ prev = Ev("query", container_name[r], "running")
                                        \/ prev.op = "run"
          [] e.op = "remove" -> i > 4 /\ prev = Ev("put", "input", "ok")
          [] OTHER           -> FALSE

\* C16: the calls of one request come in the order fetch, local open and
\* write, classification, worker check, start (when the check said not
\* running), upload, delete: the upload only after check and start have
\* returned, the delete only after a successful upload, and a path is
\* returned only after a successful upload and a successful delete.
C16_StepOrder ==
    \A r \in Requests :
        /\ \A i \in DOMAIN log[r] : ComesAfter(r, i)
        /\ pc[r] = "classify" => log[r][Len(log[r])] = Ev("write", "", "ok")
        /\ ret[r].kind = "path" =>
              /\ Len(log[r]) > 4
              /\ log[r][Len(log[r])] = Ev("remove", "", "ok")
              /\ log[r][Len(log[r]) - 1] = Ev("put", "input", "ok")

\* A request has gone through all seven calls and returned its path.
C16_Witness ==
    \E r \in Requests :
        /\ ret[r].kind = "path"
        /\ Len(log[r]) = 7
        /\ Did(r, "query", "NotFound") /\ Did(r, "run", "ok")

\* The file of request r has none of the three extensions.
UnclassifiedPaths == {p \in Paths : DocumentedFolder(basename(p)) = OTHERS}

Unclassified(r) ==
    WroteOk(r) /\ pc[r] # "classify" /\ file_path[r] \in UnclassifiedPaths

OthersKey(r) == OTHERS \o <<"/">> \o NameOf(r)

\* C17: a request for an unclassified file has no worker name, never
\* queries or starts anything in the runtime and changes nothing there,
\* whatever state the runtime is in; it goes on to the upload, and when
\* upload and delete succeed the object is at input/others/<filename> and
\* others/<filename> is returned.
C17_OthersSkipRuntime ==
    /\ [](\A r \in Requests :
            Unclassified(r) =>
                /\ container_name[r] = "None"
                /\ Calls(r, "query") = << >> /\ Calls(r, "run") = << >>
                /\ pc[r] \in {"upload", "remove", "done"}
                /\ Finished(r) => Calls(r, "put") # << >>
                /\ Did(r, "put", "ok") => <<"input", OthersKey(r)>> \in DOMAIN objects
                /\ (Did(r, "put", "ok") /\ Did(r, "remove", "ok")) =>
                       ret[r] = [kind |-> "path", path |-> OthersKey(r), exc |-> ""])
    /\ [][\A r \in Requests :
             ((log'[r] # log[r] \/ pc'[r] # pc[r]) /\ Unclassified(r)')
                 => runtime' = runtime]_vars

\* An unclassified file has been stored and its path returned while no
\* worker container exists.
C17_Witness ==
    \E r \in Requests :
        /\ file_path[r] = PathTxt
        /\ ret[r].path = <<"o", "t", "h", "e", "r", "s", "/", "a", ".", "t", "x", "t">>
        /\ \A n \in WorkerNames : runtime[n] = "absent"

====
